---- MODULE Spec2Model ----
(***************************************************************************)
(* Model of the capability Container (package container) and of the named  *)
(* resource factories built by otredis.ProvideRedis and                    *)
(* otetcd.provideFactory.                                                  *)
(***************************************************************************)
EXTENDS Integers, Sequences, FiniteSets, TLC

(***************************************************************************)
(* Bounds                                                                  *)
(***************************************************************************)
MaxModules == 3
MaxRepeat == 2
NCallers == 2
MaxMakes == 2
MaxCloses == 1
MaxManagers == 3
MaxParts == 2
NGoroutines == 2

(***************************************************************************)
(* Module values handed to AddModule.  A module is the set of provider     *)
(* methods its dynamic type has; a value whose dynamic type is func() has  *)
(* no methods at all.                                                      *)
(***************************************************************************)
Methods == {"ProvideHttp", "ProvideGrpc", "ProvideCron", "ProvideRunGroup",
            "ProvideCommand", "ProvideCloser"}

\* A serves HTTP and has a closer, B has a cron job, C is a bare func(),
\* D has no provider method, E has a closer only, F has all six methods.
ModuleValues == {"A", "B", "C", "D", "E", "F"}

IsFunc(m) == m = "C"

MethodSet(m) ==
    CASE m = "A" -> {"ProvideHttp", "ProvideCloser"}
      [] m = "B" -> {"ProvideCron"}
      [] m = "C" -> {}
      [] m = "D" -> {}
      [] m = "E" -> {"ProvideCloser"}
      [] m = "F" -> Methods

HttpProvider(m) == "ProvideHttp" \in MethodSet(m)
GrpcProvider(m) == "ProvideGrpc" \in MethodSet(m)
CronProvider(m) == "ProvideCron" \in MethodSet(m)
RunProvider(m) == "ProvideRunGroup" \in MethodSet(m)
CommandProvider(m) == "ProvideCommand" \in MethodSet(m)
CloserProvider(m) == "ProvideCloser" \in MethodSet(m)

\* A method value p.ProvideX bound to its receiver; the bare func() is
\* stored as it is.
Bound(m, meth) == <<m, meth>>
Bare(m) == <<m, "func">>

VARIABLES
    httpProviders, grpcProviders, closerProviders, runProviders, modules,
    cronProviders, commandProviders,
    lastOp,        \* the last call made on the container
    calls,         \* the callbacks that call invoked, in order, with their host
    registered,    \* history of AddModule arguments
    sdpc,          \* where the caller of Shutdown is
    sdi,           \* index of the range loop of Shutdown
    wg,            \* counter of the sync.WaitGroup
    tasks,         \* the goroutines of the current Shutdown
    closerCalls,   \* how often each closer was called by the current Shutdown
    kind,          \* "redis" or "etcd": the provider the factory comes from
    dbConfs,       \* names that have an entry in the configuration
    env,           \* ETCD_ADDR is set
    hasInterceptor, hasTracer,
    foreign,       \* the typed Factory wraps a generic factory built elsewhere
    cache,         \* name -> memoized pair
    lock,          \* name -> caller running the builder for it
    pc, arg, ret,  \* per caller of Make: position, name, results
    overlap,       \* per caller: another call for the same name was under way
    builds,        \* name -> number of builder invocations
    makes, closes, \* number of calls of Make and of Close
    nextConn,      \* identity of the next client constructed
    closedConns,   \* client -> number of times its Closer ran
    intercepted,   \* configurations handed to the interceptor, in order
    heap,          \* backing arrays of the []string slices, by address
    managers,      \* the KeyManager values constructed so far
    kpc,           \* per goroutine: where its call of Key is
    kcall,         \* per goroutine: receiver and arguments of its call
    ktmp,          \* per goroutine: the local parts after the append in Key
    kout           \* what the last call returned, if it was a call of Key

containerVars == <<httpProviders, grpcProviders, closerProviders, runProviders,
                   modules, cronProviders, commandProviders>>
callVars == <<lastOp, calls>>
shutdownVars == <<sdpc, sdi, wg, tasks, closerCalls>>
confVars == <<kind, dbConfs, env, hasInterceptor, hasTracer, foreign>>
factoryVars == <<confVars, cache, lock, pc, arg, ret, overlap, builds, makes,
                 closes, nextConn, closedConns, intercepted>>
keyVars == <<heap, managers, kpc, kcall, ktmp, kout>>
restVars == <<containerVars, callVars, registered, shutdownVars, factoryVars>>
vars == <<restVars, keyVars>>

(***************************************************************************)
(* Container                                                               *)
(***************************************************************************)
AppendIf(cond, s, e) == IF cond THEN Append(s, e) ELSE s

\* The single caller of the container is blocked inside Shutdown while the
\* closers run.
CallerFree == sdpc \in {"idle", "returned"}

\* Host objects handed to Apply-X.
Hosts == {"h1", "h2"}
NoHost == "none"

Called(op, host, n) == [op |-> op, host |-> host, n |-> n]

\* the func() case falling through to the final append
AddModuleFuncNoReturn(module) ==
    /\ closerProviders' = Append(closerProviders, Bare(module))
    /\ modules' = Append(modules, module)
    /\ UNCHANGED <<httpProviders, grpcProviders, cronProviders, runProviders,
                   commandProviders>>

\* the func() case missing: the value is classified by its (empty) method set
AddModuleFuncUnclassified(module) ==
    /\ modules' = Append(modules, module)
    /\ UNCHANGED <<httpProviders, grpcProviders, cronProviders, runProviders,
                   commandProviders, closerProviders>>

AddModuleFunc(module) ==
    /\ closerProviders' = Append(closerProviders, Bare(module))
    /\ UNCHANGED <<httpProviders, grpcProviders, cronProviders, runProviders,
                   commandProviders, modules>>

AddModuleStructPrepend(module) ==
    /\ httpProviders' = IF HttpProvider(module)
                        THEN <<Bound(module, "ProvideHttp")>> \o httpProviders
                        ELSE httpProviders
    /\ grpcProviders' = IF GrpcProvider(module)
                        THEN <<Bound(module, "ProvideGrpc")>> \o grpcProviders
                        ELSE grpcProviders
    /\ cronProviders' = IF CronProvider(module)
                        THEN <<Bound(module, "ProvideCron")>> \o cronProviders
                        ELSE cronProviders
    /\ runProviders' = IF RunProvider(module)
                       THEN <<Bound(module, "ProvideRunGroup")>> \o runProviders
                       ELSE runProviders
    /\ commandProviders' = IF CommandProvider(module)
                           THEN <<Bound(module, "ProvideCommand")>> \o commandProviders
                           ELSE commandProviders
    /\ closerProviders' = AppendIf(CloserProvider(module), closerProviders,
                                   Bound(module, "ProvideCloser"))
    /\ modules' = Append(modules, module)

AddModuleStructElse(module) ==
    /\ httpProviders' = AppendIf(HttpProvider(module), httpProviders,
                                 Bound(module, "ProvideHttp"))
    /\ grpcProviders' = AppendIf(GrpcProvider(module) /\ ~HttpProvider(module),
                                 grpcProviders, Bound(module, "ProvideGrpc"))
    /\ cronProviders' = AppendIf(CronProvider(module) /\ ~HttpProvider(module),
                                 cronProviders, Bound(module, "ProvideCron"))
    /\ runProviders' = AppendIf(RunProvider(module) /\ ~HttpProvider(module),
                                runProviders, Bound(module, "ProvideRunGroup"))
    /\ commandProviders' = AppendIf(CommandProvider(module) /\ ~HttpProvider(module),
                                    commandProviders, Bound(module, "ProvideCommand"))
    /\ closerProviders' = AppendIf(CloserProvider(module) /\ ~HttpProvider(module),
                                   closerProviders, Bound(module, "ProvideCloser"))
    /\ modules' = Append(modules, module)

AddModuleStructDefaultCloser(module) ==
    /\ httpProviders' = AppendIf(HttpProvider(module), httpProviders,
                                 Bound(module, "ProvideHttp"))
    /\ grpcProviders' = AppendIf(GrpcProvider(module), grpcProviders,
                                 Bound(module, "ProvideGrpc"))
    /\ cronProviders' = AppendIf(CronProvider(module), cronProviders,
                                 Bound(module, "ProvideCron"))
    /\ runProviders' = AppendIf(RunProvider(module), runProviders,
                                Bound(module, "ProvideRunGroup"))
    /\ commandProviders' = AppendIf(CommandProvider(module), commandProviders,
                                    Bound(module, "ProvideCommand"))
    /\ closerProviders' = AppendIf(CloserProvider(module) \/ MethodSet(module) = {},
                                   closerProviders, Bound(module, "ProvideCloser"))
    /\ modules' = Append(modules, module)

AddModuleStruct(module) ==
    /\ httpProviders' = AppendIf(HttpProvider(module), httpProviders,
                                 Bound(module, "ProvideHttp"))
    /\ grpcProviders' = AppendIf(GrpcProvider(module), grpcProviders,
                                 Bound(module, "ProvideGrpc"))
    /\ cronProviders' = AppendIf(CronProvider(module), cronProviders,
                                 Bound(module, "ProvideCron"))
    /\ runProviders' = AppendIf(RunProvider(module), runProviders,
                                Bound(module, "ProvideRunGroup"))
    /\ commandProviders' = AppendIf(CommandProvider(module), commandProviders,
                                    Bound(module, "ProvideCommand"))
    /\ closerProviders' = AppendIf(CloserProvider(module), closerProviders,
                                   Bound(module, "ProvideCloser"))
    /\ modules' = Append(modules, module)

AddModule(module) ==
    /\ CallerFree
    /\ Len(registered) < MaxModules
    /\ IF IsFunc(module) THEN AddModuleFunc(module) ELSE AddModuleStruct(module)
    /\ registered' = Append(registered, module)
    /\ lastOp' = Called("AddModule", NoHost, 1)
    /\ calls' = <<>>
    /\ UNCHANGED <<shutdownVars, factoryVars, keyVars>>

\* for _, p := range ps { p(host) }
RECURSIVE RangeCallFrom(_, _, _, _)
RangeCallFrom(ps, i, host, done) ==
    IF i > Len(ps) THEN done
    ELSE RangeCallFrom(ps, i + 1, host, Append(done, [p |-> ps[i], host |-> host]))

RangeCall(ps, host) == RangeCallFrom(ps, 1, host, <<>>)

\* One more call of op with host; a call repeated with the same host is
\* followed up to MaxRepeat times.
ApplyCall(op, host) ==
    /\ CallerFree
    /\ IF lastOp.op = op /\ lastOp.host = host
       THEN lastOp.n < MaxRepeat /\ lastOp' = Called(op, host, lastOp.n + 1)
       ELSE lastOp' = Called(op, host, 1)
    /\ UNCHANGED <<containerVars, registered, shutdownVars, factoryVars, keyVars>>

\* ApplyRouter guarded against a second call with the same router
ApplyRouterOnce(router) ==
    /\ ApplyCall("ApplyRouter", router)
    /\ calls' = IF lastOp.op = "ApplyRouter" /\ lastOp.host = router
                THEN <<>> ELSE RangeCall(httpProviders, router)

ApplyRouter(router) ==
    /\ ApplyCall("ApplyRouter", router)
    /\ calls' = RangeCall(httpProviders, router)

ApplyGRPCServer(server) ==
    /\ ApplyCall("ApplyGRPCServer", server)
    /\ calls' = RangeCall(grpcProviders, server)

ApplyRunGroup(group) ==
    /\ ApplyCall("ApplyRunGroup", group)
    /\ calls' = RangeCall(runProviders, group)

ApplyCron(crontab) ==
    /\ ApplyCall("ApplyCron", crontab)
    /\ calls' = RangeCall(cronProviders, crontab)

ApplyRootCommand(command) ==
    /\ ApplyCall("ApplyRootCommand", command)
    /\ calls' = RangeCall(commandProviders, command)

Modules == modules

(***************************************************************************)
(* Shutdown: one goroutine per closer, joined by a sync.WaitGroup.         *)
(* A task is "spawned" by the go statement, "running" once it has called   *)
(* p, "returned" once p has returned and "done" after wg.Done().           *)
(***************************************************************************)
AllClosers == {Bound(m, "ProvideCloser") : m \in ModuleValues}
                  \cup {Bare(m) : m \in ModuleValues}

\* Without p := p every goroutine would share the loop variable.
SharedLoopVar(i) == closerProviders[Len(closerProviders)]

LoopVarCopy(i) == closerProviders[i]

\* wg.Wait() returning as soon as some task has finished.
WaitAny == wg = 0 \/ wg < Len(tasks)

WaitDone == wg = 0

ShutdownBegin ==
    /\ CallerFree
    /\ lastOp' = Called("Shutdown", NoHost, 1)
    /\ calls' = <<>>
    /\ sdpc' = IF Len(closerProviders) = 0 THEN "wait" ELSE "loop"
    /\ sdi' = 1
    /\ wg' = 0
    /\ tasks' = <<>>
    /\ closerCalls' = [c \in AllClosers |-> 0]
    /\ UNCHANGED <<containerVars, registered, factoryVars, keyVars>>

\* wg.Add(1); p := p; go func() { ... }()
ShutdownSpawn ==
    /\ sdpc = "loop"
    /\ sdi <= Len(closerProviders)
    /\ wg' = wg + 1
    /\ tasks' = Append(tasks, [p |-> LoopVarCopy(sdi), st |-> "spawned"])
    /\ sdi' = sdi + 1
    /\ sdpc' = IF sdi + 1 > Len(closerProviders) THEN "wait" ELSE "loop"
    /\ UNCHANGED <<containerVars, callVars, registered, closerCalls,
                   factoryVars, keyVars>>

\* the closers called one after another, as without the go statement
TaskCallInTurn(i) ==
    /\ tasks[i].st = "spawned"
    /\ \A j \in 1..(i - 1) : tasks[j].st \in {"returned", "done"}
    /\ tasks' = [tasks EXCEPT ![i].st = "running"]
    /\ closerCalls' = [closerCalls EXCEPT ![tasks[i].p] = @ + 1]
    /\ UNCHANGED <<containerVars, callVars, registered, sdpc, sdi, wg,
                   factoryVars, keyVars>>

\* the goroutine calls p()
TaskCall(i) ==
    /\ tasks[i].st = "spawned"
    /\ tasks' = [tasks EXCEPT ![i].st = "running"]
    /\ closerCalls' = [closerCalls EXCEPT ![tasks[i].p] = @ + 1]
    /\ UNCHANGED <<containerVars, callVars, registered, sdpc, sdi, wg,
                   factoryVars, keyVars>>

\* p() returns
TaskReturn(i) ==
    /\ tasks[i].st = "running"
    /\ tasks' = [tasks EXCEPT ![i].st = "returned"]
    /\ UNCHANGED <<containerVars, callVars, registered, sdpc, sdi, wg,
                   closerCalls, factoryVars, keyVars>>

\* the goroutine ending without wg.Done()
TaskDoneNoDone(i) ==
    /\ tasks[i].st = "returned"
    /\ tasks' = [tasks EXCEPT ![i].st = "done"]
    /\ UNCHANGED <<containerVars, callVars, registered, sdpc, sdi, wg,
                   closerCalls, factoryVars, keyVars>>

\* wg.Done()
TaskDone(i) ==
    /\ tasks[i].st = "returned"
    /\ tasks' = [tasks EXCEPT ![i].st = "done"]
    /\ wg' = wg - 1
    /\ UNCHANGED <<containerVars, callVars, registered, sdpc, sdi,
                   closerCalls, factoryVars, keyVars>>

\* Shutdown dropping the closers it has run
ShutdownReturnClears ==
    /\ sdpc = "wait"
    /\ WaitDone
    /\ sdpc' = "returned"
    /\ closerProviders' = <<>>
    /\ UNCHANGED <<httpProviders, grpcProviders, runProviders, modules,
                   cronProviders, commandProviders, callVars, registered, sdi,
                   wg, tasks, closerCalls, factoryVars, keyVars>>

\* wg.Wait() returns and with it Shutdown
ShutdownReturn ==
    /\ sdpc = "wait"
    /\ WaitDone
    /\ sdpc' = "returned"
    /\ UNCHANGED <<containerVars, callVars, registered, sdi, wg, tasks,
                   closerCalls, factoryVars, keyVars>>

(***************************************************************************)
(* Resource providers: the builders of otredis.ProvideRedis and            *)
(* otetcd.provideFactory and the typed Factory.Make wrappers.              *)
(***************************************************************************)
Names == {"default", "a"}
Threads == 1..NCallers

NoErr == [msg |-> "", name |-> ""]
NotValid(k, name) == [msg |-> k \o " configuration %s not valid", name |-> name]

NoConf == [name |-> "", source |-> "none", patched |-> FALSE, traced |-> FALSE]
Nil == [type |-> "nil", id |-> 0, conf |-> NoConf, hooked |-> FALSE]
NoPair == [Conn |-> Nil, Closer |-> FALSE]
NoRet == [conn |-> Nil, err |-> NoErr, panic |-> FALSE]

ClientType(k) == IF k = "redis" THEN "redis.UniversalClient" ELSE "*clientv3.Client"

\* p.Interceptor(name, &conf)
Interceptor(name, conf) == [conf EXCEPT !.patched = TRUE]

\* the interceptor called only after the client has been constructed
RedisBuilderLateInterceptor(name, id) ==
    IF name \notin dbConfs
    THEN [pair |-> NoPair, err |-> NotValid("redis", name), seen |-> <<>>]
    ELSE LET conf == [name |-> name, source |-> "config", patched |-> FALSE,
                      traced |-> FALSE]
             client == [type |-> "redis.UniversalClient", id |-> id,
                        conf |-> conf, hooked |-> hasTracer]
         IN [pair |-> [Conn |-> client, Closer |-> TRUE], err |-> NoErr,
             seen |-> IF hasInterceptor THEN <<conf>> ELSE <<>>]

\* The builder handed to async.NewFactory by ProvideRedis.  id is the
\* identity of the client redis.NewUniversalClient allocates.
RedisBuilder(name, id) ==
    IF name \notin dbConfs
    THEN [pair |-> NoPair, err |-> NotValid("redis", name), seen |-> <<>>]
    ELSE LET conf == [name |-> name, source |-> "config", patched |-> FALSE,
                      traced |-> FALSE]
             opts == IF hasInterceptor THEN Interceptor(name, conf) ELSE conf
             client == [type |-> "redis.UniversalClient", id |-> id,
                        conf |-> opts, hooked |-> hasTracer]
         IN [pair |-> [Conn |-> client, Closer |-> TRUE], err |-> NoErr,
             seen |-> IF hasInterceptor THEN <<conf>> ELSE <<>>]

\* the builder without the test name != "default": every missing name gets
\* the default configuration
EtcdBuilderAnyDefault(name, id, ok) ==
    LET conf == [name |-> name,
                 source |-> IF name \in dbConfs THEN "config"
                            ELSE IF env THEN "ETCD_ADDR"
                            ELSE "127.0.0.1:6379",
                 patched |-> FALSE, traced |-> FALSE]
        co == [conf EXCEPT !.traced = hasTracer]
        opts == IF hasInterceptor THEN Interceptor(name, co) ELSE co
        client == [type |-> "*clientv3.Client", id |-> IF ok THEN id ELSE 0,
                   conf |-> IF ok THEN opts ELSE NoConf, hooked |-> FALSE]
    IN [pair |-> [Conn |-> client, Closer |-> TRUE], err |-> NoErr,
        seen |-> IF hasInterceptor THEN <<co>> ELSE <<>>]

\* The builder handed to di.NewFactory by provideFactory.  ok tells whether
\* clientv3.New succeeds; on failure it returns a nil *clientv3.Client.
EtcdBuilder(name, id, ok) ==
    IF name \notin dbConfs /\ name # "default"
    THEN [pair |-> NoPair, err |-> NotValid("etcd", name), seen |-> <<>>]
    ELSE LET conf == [name |-> name,
                      source |-> IF name \in dbConfs THEN "config"
                                 ELSE IF env THEN "ETCD_ADDR"
                                 ELSE "127.0.0.1:6379",
                      patched |-> FALSE, traced |-> FALSE]
             co == [conf EXCEPT !.traced = hasTracer]
             opts == IF hasInterceptor THEN Interceptor(name, co) ELSE co
             client == IF ok
                       THEN [type |-> "*clientv3.Client", id |-> id,
                             conf |-> opts, hooked |-> FALSE]
                       ELSE [type |-> "*clientv3.Client", id |-> 0,
                             conf |-> NoConf, hooked |-> FALSE]
         IN [pair |-> [Conn |-> client, Closer |-> TRUE], err |-> NoErr,
             seen |-> IF hasInterceptor THEN <<co>> ELSE <<>>]

\* Factory is an exported struct around the generic factory: a caller can
\* wrap one whose builder returns a Conn of any other type.
ForeignBuilder(name, id) ==
    [pair |-> [Conn |-> [type |-> "other", id |-> id, conf |-> NoConf,
                         hooked |-> FALSE],
               Closer |-> TRUE],
     err |-> NoErr, seen |-> <<>>]

Builder(name, id, ok) ==
    IF foreign THEN ForeignBuilder(name, id)
    ELSE IF kind = "redis" THEN RedisBuilder(name, id)
    ELSE EtcdBuilder(name, id, ok)

\* Factory.Make of otredis and otetcd: narrow the generic result.
FactoryMakeInverted(res) ==
    IF res.err = NoErr
    THEN [conn |-> Nil, err |-> res.err, panic |-> FALSE]
    ELSE [conn |-> res.conn, err |-> NoErr, panic |-> res.conn.type # ClientType(kind)]

FactoryMake(res) ==
    IF res.err # NoErr
    THEN [conn |-> Nil, err |-> res.err, panic |-> FALSE]
    ELSE [conn |-> res.conn, err |-> NoErr, panic |-> res.conn.type # ClientType(kind)]

(***************************************************************************)
(* The generic memoizing factory (async.Factory, di.Factory): Make and     *)
(* Close.  The check for a memoized instance and the insertion are atomic  *)
(* per name; calls for different names do not block one another.           *)
(***************************************************************************)
NoThread == 0

LockIgnored(name) == TRUE

LockFree(name) == lock[name] = NoThread

Busy(t) == pc[t] \in {"enter", "build"}

\* a caller enters Factory.Make(name)
MakeCall(t, name) ==
    /\ ~Busy(t)
    /\ makes < MaxMakes
    /\ makes' = makes + 1
    /\ pc' = [pc EXCEPT ![t] = "enter"]
    /\ arg' = [arg EXCEPT ![t] = name]
    /\ ret' = [ret EXCEPT ![t] = NoRet]
    /\ overlap' = [u \in Threads |->
                     IF u = t THEN \E v \in Threads \ {t} : Busy(v) /\ arg[v] = name
                     ELSE overlap[u] \/ (Busy(u) /\ arg[u] = name)]
    /\ UNCHANGED <<containerVars, callVars, registered, shutdownVars, confVars, keyVars,
                   cache, lock, builds, closes, nextConn, closedConns,
                   intercepted>>

\* the memoized instance is returned
MakeHit(t) ==
    /\ pc[t] = "enter"
    /\ LockFree(arg[t])
    /\ cache[arg[t]] # NoPair
    /\ ret' = [ret EXCEPT ![t] = FactoryMake([conn |-> cache[arg[t]].Conn,
                                              err |-> NoErr])]
    /\ pc' = [pc EXCEPT ![t] = "returned"]
    /\ UNCHANGED <<containerVars, callVars, registered, shutdownVars, confVars, keyVars,
                   cache, lock, arg, overlap, builds, makes, closes, nextConn,
                   closedConns, intercepted>>

\* nothing is memoized: the caller goes on to the builder
MakeMiss(t) ==
    /\ pc[t] = "enter"
    /\ LockFree(arg[t])
    /\ cache[arg[t]] = NoPair
    /\ lock' = [lock EXCEPT ![arg[t]] = t]
    /\ pc' = [pc EXCEPT ![t] = "build"]
    /\ UNCHANGED <<containerVars, callVars, registered, shutdownVars, confVars, keyVars,
                   cache, arg, ret, overlap, builds, makes, closes, nextConn,
                   closedConns, intercepted>>

\* the builder runs; its pair is memoized unless it returned an error
MakeBuild(t, ok) ==
    /\ pc[t] = "build"
    /\ (kind = "redis" => ok)
    /\ LET name == arg[t]
           out == Builder(name, nextConn, ok)
       IN /\ builds' = [builds EXCEPT ![name] = @ + 1]
          /\ nextConn' = IF out.err = NoErr /\ out.pair.Conn.id # 0
                         THEN nextConn + 1 ELSE nextConn
          /\ intercepted' = intercepted \o out.seen
          /\ cache' = IF out.err = NoErr
                      THEN [cache EXCEPT ![name] = out.pair] ELSE cache
          /\ ret' = [ret EXCEPT ![t] =
                        FactoryMake([conn |-> out.pair.Conn, err |-> out.err])]
          /\ lock' = [lock EXCEPT ![name] = NoThread]
          /\ pc' = [pc EXCEPT ![t] = "returned"]
    /\ UNCHANGED <<containerVars, callVars, registered, shutdownVars, confVars, keyVars,
                   arg, overlap, makes, closes, closedConns>>

\* Close that runs the teardown actions and keeps the map
CloseKeepsMap ==
    /\ closes < MaxCloses
    /\ \A t \in Threads : pc[t] # "build"
    /\ closes' = closes + 1
    /\ closedConns' = [i \in DOMAIN closedConns |->
                         closedConns[i] + Cardinality({n \in Names :
                             cache[n] # NoPair /\ cache[n].Conn.id = i})]
    /\ UNCHANGED <<containerVars, callVars, registered, shutdownVars, confVars, keyVars,
                   cache, lock, pc, arg, ret, overlap, builds, makes, nextConn,
                   intercepted>>

\* Close: every memoized teardown action runs and the map is emptied
Close ==
    /\ closes < MaxCloses
    /\ \A t \in Threads : pc[t] # "build"
    /\ closes' = closes + 1
    /\ closedConns' = [i \in DOMAIN closedConns |->
                         closedConns[i] + Cardinality({n \in Names :
                             cache[n] # NoPair /\ cache[n].Conn.id = i})]
    /\ cache' = [n \in Names |-> NoPair]
    /\ UNCHANGED <<containerVars, callVars, registered, shutdownVars, confVars, keyVars,
                   lock, pc, arg, ret, overlap, builds, makes, nextConn,
                   intercepted>>

(***************************************************************************)
(* Package key.  A []string is a slice header (ptr, len, cap) over a       *)
(* backing array of the heap; ptr 0 is the nil slice.  append writes into  *)
(* the backing array when the capacity suffices and otherwise copies into  *)
(* a new array, whose capacity the gc runtime doubles unless more is       *)
(* needed.                                                                 *)
(***************************************************************************)
Labels == {"x", "y"}
Delimiter == ":"
Goroutines == 1..NGoroutines

\* The parts handed to a call: one label, up to MaxParts times.
Parts == {[i \in 1..n |-> l] : n \in 1..MaxParts, l \in Labels}

NilSlice == [ptr |-> 0, len |-> 0, cap |-> 0]

\* s[0:len(s)] read from heap h
Elems(h, s) == [i \in 1..s.len |-> h[s.ptr][i]]

GrowCap(cap, n) == IF n > 2 * cap THEN n ELSE 2 * cap

\* append(s, parts...) on heap h.  fresh tells that a new array was
\* allocated: arr is its content and the heap is untouched; otherwise the
\* cells behind s.len were overwritten in place.
GoAppend(h, s, parts) ==
    LET n == s.len + Len(parts)
    IN IF n <= s.cap
       THEN [fresh |-> FALSE,
             heap |-> IF Len(parts) = 0 THEN h
                      ELSE [h EXCEPT ![s.ptr] =
                              [i \in 1..s.cap |->
                                 IF i > s.len /\ i <= n THEN parts[i - s.len]
                                 ELSE @[i]]],
             slice |-> [s EXCEPT !.len = n],
             arr |-> <<>>]
       ELSE LET c == GrowCap(s.cap, n)
            IN [fresh |-> TRUE,
                heap |-> h,
                slice |-> [ptr |-> Len(h) + 1, len |-> n, cap |-> c],
                arr |-> [i \in 1..c |->
                           IF i <= s.len THEN h[s.ptr][i]
                           ELSE IF i <= n THEN parts[i - s.len]
                           ELSE ""]]

\* the heap once the result r of an append is kept
Kept(r) == IF r.fresh THEN Append(r.heap, r.arr) ELSE r.heap

NoGoroutine == 0
NoOut == [g |-> NoGoroutine, val |-> ""]

KeyManager(prefixes) == [Prefixes |-> prefixes]

\* strings.Join(parts, delimiter)
RECURSIVE Join(_, _)
Join(parts, delimiter) ==
    IF Len(parts) = 0 THEN ""
    ELSE IF Len(parts) = 1 THEN parts[1]
    ELSE parts[1] \o delimiter \o Join(Tail(parts), delimiter)

\* NewManager(parts...) with the parts written out in the call: the
\* variadic slice is a new array of exactly that length.
NewManager(parts) ==
    /\ Len(managers) < MaxManagers
    /\ heap' = Append(heap, parts)
    /\ managers' = Append(managers,
          KeyManager([ptr |-> Len(heap) + 1, len |-> Len(parts),
                      cap |-> Len(parts)]))
    /\ kout' = NoOut
    /\ UNCHANGED <<kpc, kcall, ktmp, restVars>>

\* k.Spread()
Spread(k) == k.Prefixes

\* SpreadInterface(k): the labels copied into a new []interface{}
SpreadInterface(h, k) == [i \in 1..Spread(k).len |-> Elems(h, Spread(k))[i]]

\* k.With(parts...)
KeyManagerWith(k, parts) ==
    /\ Len(managers) < MaxManagers
    /\ LET r == GoAppend(heap, managers[k].Prefixes, parts)
       IN /\ heap' = Kept(r)
          /\ managers' = Append(managers, KeyManager(r.slice))
    /\ kout' = NoOut
    /\ UNCHANGED <<kpc, kcall, ktmp, restVars>>

\* With(k, parts...) of the package: the append to k.Spread() may write
\* into the array of k; km.With then copies into a new array.
With(k, parts) ==
    /\ Len(managers) < MaxManagers
    /\ LET r == GoAppend(heap, Spread(managers[k]), parts)
           joined == IF r.fresh THEN SubSeq(r.arr, 1, r.slice.len)
                     ELSE Elems(r.heap, r.slice)
           km == GoAppend(r.heap, NilSlice, joined)
       IN /\ heap' = Kept(km)
          /\ managers' = Append(managers, KeyManager(km.slice))
    /\ kout' = NoOut
    /\ UNCHANGED <<kpc, kcall, ktmp, restVars>>

\* the loop of KeepOdd from index i on (i counts from zero); arr, len and
\* cap are km.Prefixes, which no one else can reach yet
RECURSIVE KeepOddFrom(_, _, _)
KeepOddFrom(spreader, i, km) ==
    IF i >= Len(spreader) THEN km
    ELSE IF i % 2 = 1
    THEN LET h == IF km.cap = 0 THEN <<>> ELSE <<km.arr>>
             s == [ptr |-> IF km.cap = 0 THEN 0 ELSE 1, len |-> km.len,
                   cap |-> km.cap]
             r == GoAppend(h, s, <<spreader[i + 1]>>)
         IN KeepOddFrom(spreader, i + 1,
                        [arr |-> IF r.fresh THEN r.arr ELSE r.heap[1],
                         len |-> r.slice.len, cap |-> r.slice.cap])
    ELSE KeepOddFrom(spreader, i + 1, km)

KeepOdd(k) ==
    /\ Len(managers) < MaxManagers
    /\ LET spreader == Elems(heap, Spread(managers[k]))
           km == KeepOddFrom(spreader, 0, [arr |-> <<>>, len |-> 0, cap |-> 0])
       IN IF km.cap = 0
          THEN /\ managers' = Append(managers, KeyManager(NilSlice))
               /\ heap' = heap
          ELSE /\ managers' = Append(managers,
                     KeyManager([ptr |-> Len(heap) + 1, len |-> km.len,
                                 cap |-> km.cap]))
               /\ heap' = Append(heap, km.arr)
    /\ kout' = NoOut
    /\ UNCHANGED <<kpc, kcall, ktmp, restVars>>

NoCall == [labels |-> <<>>, parts |-> <<>>]
NoTmp == [slice |-> NilSlice, own |-> <<>>]

\* goroutine g calls k.Key(delimiter, parts...) and runs its first line,
\* parts = append(k.Prefixes, parts...); labels is what k held at the call
Key(g, k, parts) ==
    /\ kpc[g] = "idle"
    /\ LET r == GoAppend(heap, managers[k].Prefixes, parts)
       IN /\ heap' = r.heap
          /\ ktmp' = [ktmp EXCEPT ![g] =
                IF r.fresh
                THEN [slice |-> NilSlice, own |-> SubSeq(r.arr, 1, r.slice.len)]
                ELSE [slice |-> r.slice, own |-> <<>>]]
    /\ kcall' = [kcall EXCEPT ![g] =
          [labels |-> Elems(heap, managers[k].Prefixes), parts |-> parts]]
    /\ kpc' = [kpc EXCEPT ![g] = "appended"]
    /\ kout' = NoOut
    /\ UNCHANGED <<managers, restVars>>

\* return strings.Join(parts, delimiter)
KeyReturn(g) ==
    /\ kpc[g] = "appended"
    /\ LET parts == IF ktmp[g].slice.ptr = 0 THEN ktmp[g].own
                    ELSE Elems(heap, ktmp[g].slice)
       IN kout' = [g |-> g, val |-> Join(parts, Delimiter)]
    /\ kpc' = [kpc EXCEPT ![g] = "idle"]
    /\ kcall' = [kcall EXCEPT ![g] = NoCall]
    /\ ktmp' = [ktmp EXCEPT ![g] = NoTmp]
    /\ UNCHANGED <<heap, managers, restVars>>

KeyStart ==
    /\ heap = <<>> /\ managers = <<>>
    /\ kpc = [g \in Goroutines |-> "idle"]
    /\ kcall = [g \in Goroutines |-> NoCall]
    /\ ktmp = [g \in Goroutines |-> NoTmp]
    /\ kout = NoOut

(***************************************************************************)
(* Specifications                                                          *)
(***************************************************************************)
ContainerInit ==
    /\ httpProviders = <<>> /\ grpcProviders = <<>> /\ closerProviders = <<>>
    /\ runProviders = <<>> /\ modules = <<>> /\ cronProviders = <<>>
    /\ commandProviders = <<>>
    /\ lastOp = Called("none", NoHost, 1) /\ calls = <<>>
    /\ registered = <<>>
    /\ sdpc = "idle" /\ sdi = 1 /\ wg = 0 /\ tasks = <<>>
    /\ closerCalls = [c \in AllClosers |-> 0]

\* The factory as its provider hands it out.  ProvideRedis has by then
\* called Make("default") once and dropped its error; provideFactory has
\* made nothing.
FactoryStart ==
    LET made == kind = "redis" /\ ~foreign
        out == RedisBuilder("default", 1)
    IN /\ cache = [n \in Names |->
                     IF made /\ n = "default" /\ out.err = NoErr
                     THEN out.pair ELSE NoPair]
       /\ builds = [n \in Names |-> IF made /\ n = "default" THEN 1 ELSE 0]
       /\ nextConn = IF made /\ out.err = NoErr THEN 2 ELSE 1
       /\ intercepted = IF made THEN out.seen ELSE <<>>
       /\ lock = [n \in Names |-> NoThread]
       /\ pc = [t \in Threads |-> "idle"]
       /\ arg = [t \in Threads |-> "default"]
       /\ ret = [t \in Threads |-> NoRet]
       /\ overlap = [t \in Threads |-> FALSE]
       /\ makes = 0 /\ closes = 0
       /\ closedConns = [i \in 0..MaxMakes + 1 |-> 0]

Init ==
    /\ ContainerInit
    /\ kind = "redis" /\ dbConfs = {"default"} /\ env = FALSE
    /\ hasInterceptor = FALSE /\ hasTracer = FALSE /\ foreign = FALSE
    /\ FactoryStart
    /\ KeyStart

Next ==
    \/ \E module \in ModuleValues : AddModule(module)
    \/ \E router \in Hosts : ApplyRouter(router)
    \/ \E server \in Hosts : ApplyGRPCServer(server)
    \/ \E group \in Hosts : ApplyRunGroup(group)
    \/ \E crontab \in Hosts : ApplyCron(crontab)
    \/ \E command \in Hosts : ApplyRootCommand(command)
    \/ ShutdownBegin
    \/ ShutdownSpawn
    \/ \E i \in 1..Len(tasks) : TaskCall(i)
    \/ \E i \in 1..Len(tasks) : TaskReturn(i)
    \/ \E i \in 1..Len(tasks) : TaskDone(i)
    \/ ShutdownReturn

Spec == Init /\ [][Next]_vars

\* Registration and Shutdown alone, with the scheduling the Go runtime
\* gives: the loop of Shutdown goes on, every goroutine started gets to run
\* its next statement, and wg.Wait() returns once the counter is zero.
ShutdownNext ==
    \/ \E module \in ModuleValues : AddModule(module)
    \/ ShutdownBegin
    \/ ShutdownSpawn
    \/ \E i \in 1..Len(tasks) : TaskCall(i)
    \/ \E i \in 1..Len(tasks) : TaskReturn(i)
    \/ \E i \in 1..Len(tasks) : TaskDone(i)
    \/ ShutdownReturn

TaskIds == 1..MaxModules

Scheduling ==
    /\ WF_vars(ShutdownSpawn)
    /\ WF_vars(ShutdownReturn)
    /\ \A i \in TaskIds : WF_vars(i <= Len(tasks) /\ TaskCall(i))
    /\ \A i \in TaskIds : WF_vars(i <= Len(tasks) /\ TaskDone(i))

\* The closers in S return once called; the others may block for ever.
Returning(S) ==
    \A i \in TaskIds :
        WF_vars(i <= Len(tasks) /\ tasks[i].p \in S /\ TaskReturn(i))

\* every closer returns
LiveSpec ==
    Init /\ [][ShutdownNext]_vars /\ Scheduling /\ Returning(AllClosers)

\* a bare func() closer may block for ever
Blocking == {Bare(m) : m \in ModuleValues}

BlockSpec ==
    Init /\ [][ShutdownNext]_vars /\ Scheduling
         /\ Returning(AllClosers \ Blocking)

FactoryInit ==
    /\ ContainerInit
    /\ kind \in {"redis", "etcd"}
    /\ dbConfs \in SUBSET Names
    /\ env \in (IF kind = "etcd" THEN BOOLEAN ELSE {FALSE})
    /\ hasInterceptor \in BOOLEAN
    /\ hasTracer \in BOOLEAN
    /\ foreign = FALSE
    /\ FactoryStart
    /\ KeyStart

FactoryNext ==
    \/ \E t \in Threads, name \in Names : MakeCall(t, name)
    \/ \E t \in Threads : MakeHit(t)
    \/ \E t \in Threads : MakeMiss(t)
    \/ \E t \in Threads, ok \in BOOLEAN : MakeBuild(t, ok)
    \/ Close

FactorySpec == FactoryInit /\ [][FactoryNext]_vars

\* The typed wrappers over a generic factory that was not built by
\* ProvideRedis or provideFactory.
WrapperInit ==
    /\ ContainerInit
    /\ kind \in {"redis", "etcd"}
    /\ dbConfs \in SUBSET Names
    /\ env = FALSE /\ hasInterceptor = FALSE /\ hasTracer = FALSE
    /\ foreign = TRUE
    /\ FactoryStart
    /\ KeyStart

WrapperSpec == WrapperInit /\ [][FactoryNext]_vars

\* Package key on its own.
KeyInit ==
    /\ ContainerInit
    /\ kind = "redis" /\ dbConfs = {"default"} /\ env = FALSE
    /\ hasInterceptor = FALSE /\ hasTracer = FALSE /\ foreign = FALSE
    /\ FactoryStart
    /\ KeyStart

KeyNext ==
    \/ \E parts \in Parts : NewManager(parts)
    \/ \E k \in 1..Len(managers), parts \in Parts : KeyManagerWith(k, parts)
    \/ \E k \in 1..Len(managers), parts \in Parts : With(k, parts)
    \/ \E k \in 1..Len(managers) : KeepOdd(k)
    \/ \E g \in Goroutines, k \in 1..Len(managers), l \in Labels :
          Key(g, k, <<l>>)
    \/ \E g \in Goroutines : KeyReturn(g)

KeySpec == KeyInit /\ [][KeyNext]_vars

(***************************************************************************)
(* Properties of the Container                                             *)
(***************************************************************************)
Range(s) == {s[i] : i \in 1..Len(s)}

ApplyOps == {"ApplyRouter", "ApplyGRPCServer", "ApplyCron", "ApplyRootCommand",
             "ApplyRunGroup"}

MethodOf(op) ==
    CASE op = "ApplyRouter" -> "ProvideHttp"
      [] op = "ApplyGRPCServer" -> "ProvideGrpc"
      [] op = "ApplyCron" -> "ProvideCron"
      [] op = "ApplyRootCommand" -> "ProvideCommand"
      [] op = "ApplyRunGroup" -> "ProvideRunGroup"

\* The invocations a call of Apply-X with host has to make, from the history
\* of AddModule calls alone.
Expected(meth, host) ==
    LET sel == SelectSeq(registered, LAMBDA m : meth \in MethodSet(m))
    IN [i \in 1..Len(sel) |-> [p |-> Bound(sel[i], meth), host |-> host]]

Occurrences(s, e) == Cardinality({i \in 1..Len(s) : s[i] = e})

ApplyStep == lastOp' # lastOp /\ lastOp'.op \in ApplyOps

AddModuleStep(m) ==
    /\ Len(registered') = Len(registered) + 1
    /\ registered'[Len(registered')] = m

ShutdownReturnStep == sdpc = "wait" /\ sdpc' = "returned"

\* The closer callback a registration of m contributes, if any.
HasCloser(m) == IsFunc(m) \/ CloserProvider(m)
CloserOf(m) == IF IsFunc(m) THEN Bare(m) ELSE Bound(m, "ProvideCloser")
Registrations(c) ==
    Cardinality({i \in 1..Len(registered) :
                    HasCloser(registered[i]) /\ CloserOf(registered[i]) = c})

\* C1: a call of Apply-X has invoked, with the host it was given, exactly
\* the callbacks of the registered modules that have the capability, once
\* per registration and in the order the modules were registered.
C1_DispatchInRegistrationOrder ==
    \A op \in ApplyOps :
        lastOp.op = op => calls = Expected(MethodOf(op), lastOp.host)

C1_Witness ==
    /\ registered = <<"A", "B", "F">>
    /\ lastOp.op = "ApplyRouter"
    /\ calls = <<[p |-> Bound("A", "ProvideHttp"), host |-> "h1"],
                 [p |-> Bound("F", "ProvideHttp"), host |-> "h1"]>>

\* C2: Shutdown has returned only if every closer it started has returned.
C2_ShutdownJoinsAllClosers ==
    sdpc = "returned" =>
        \A i \in 1..Len(tasks) : tasks[i].st \in {"returned", "done"}

C2_Witness ==
    /\ sdpc = "returned"
    /\ Len(tasks) >= 2
    /\ \A i \in 1..Len(tasks) : tasks[i].st = "done"

\* C3: when Shutdown returns, every registered closer callback, method
\* value or bare func(), has been invoked exactly once per registration.
C3_EveryCloserOnce ==
    [][ShutdownReturnStep =>
          \A c \in AllClosers : closerCalls'[c] = Registrations(c)]_vars

C3_Witness ==
    /\ sdpc = "returned"
    /\ closerCalls[Bare("C")] = 1
    /\ closerCalls[Bound("A", "ProvideCloser")] = 1
    /\ closerCalls[Bound("E", "ProvideCloser")] = 1

\* C4 (as stated): Modules() contains every value that was registered.
C4_ModulesHoldEveryRegistered ==
    \A i \in 1..Len(registered) : registered[i] \in Range(Modules)

\* C4 (amended): Modules() holds, in registration order, exactly the
\* registered values whose dynamic type is not func(); a bare func() is
\* appended to the closers only.
C4_ModulesHoldNonFunc ==
    Modules = SelectSeq(registered, LAMBDA m : ~IsFunc(m))

C4_Witness ==
    /\ "C" \in Range(registered)
    /\ "D" \in Range(registered)
    /\ "D" \in Range(Modules)
    /\ "C" \notin Range(Modules)

\* C5: a module with several capabilities gets one callback in each
\* sequence it satisfies and in no other; a call of Apply-X invokes the
\* callbacks of X only, that of every registered module having X as often as
\* the module was registered, whatever other capabilities the module has
\* and whatever was applied before; it changes no sequence and invokes no
\* closer.
C5_IndependentDispatch ==
    [][/\ \A m \in ModuleValues : AddModuleStep(m) /\ ~IsFunc(m) =>
            /\ httpProviders' = AppendIf(HttpProvider(m), httpProviders,
                                         Bound(m, "ProvideHttp"))
            /\ grpcProviders' = AppendIf(GrpcProvider(m), grpcProviders,
                                         Bound(m, "ProvideGrpc"))
            /\ cronProviders' = AppendIf(CronProvider(m), cronProviders,
                                         Bound(m, "ProvideCron"))
            /\ runProviders' = AppendIf(RunProvider(m), runProviders,
                                        Bound(m, "ProvideRunGroup"))
            /\ commandProviders' = AppendIf(CommandProvider(m), commandProviders,
                                            Bound(m, "ProvideCommand"))
            /\ closerProviders' = AppendIf(CloserProvider(m), closerProviders,
                                           Bound(m, "ProvideCloser"))
       /\ ApplyStep =>
            /\ UNCHANGED <<containerVars, closerCalls, tasks>>
            /\ \A e \in Range(calls') : e.p[2] = MethodOf(lastOp'.op)
            /\ \A m \in Range(registered) :
                  MethodOf(lastOp'.op) \in MethodSet(m) =>
                      Occurrences(calls', [p |-> Bound(m, MethodOf(lastOp'.op)),
                                           host |-> lastOp'.host])
                          = Occurrences(registered, m)]_vars

C5_Witness ==
    /\ registered = <<"F", "A", "F">>
    /\ lastOp.op = "ApplyCron"
    /\ calls = <<[p |-> Bound("F", "ProvideCron"), host |-> "h2"],
                 [p |-> Bound("F", "ProvideCron"), host |-> "h2"]>>
    /\ Len(httpProviders) = 3

\* What the last call has invoked of module m.
Reached(m) == {e \in Range(calls) : e.p[1] = m}

\* C6 (as stated): registering a bare func() changes the container exactly
\* as registering a module that has only ProvideCloser does: one closer
\* more, the five other sequences untouched, and the value listed by
\* Modules().
C6_BareFuncSameAsCloserModule ==
    [][\A m \in ModuleValues : AddModuleStep(m) /\ IsFunc(m) =>
          /\ closerProviders' = Append(closerProviders, Bare(m))
          /\ Modules' = Append(Modules, m)
          /\ UNCHANGED <<httpProviders, grpcProviders, cronProviders,
                         runProviders, commandProviders>>]_vars

\* C6 (amended): a bare func() is registered as a closer-only module is as
\* far as dispatch and Shutdown go (one closer more, the five other
\* sequences untouched, never reached by Apply-X, invoked once by
\* Shutdown), but Modules() does not list it.  With A, B, C registered,
\* ApplyRouter reaches only A, ApplyCron only B, and Shutdown returns after
\* the closers of A and C have both been invoked once and have returned.
C6_BareFuncIsCloserOnly ==
    [][/\ \A m \in ModuleValues : AddModuleStep(m) /\ IsFunc(m) =>
            /\ closerProviders' = Append(closerProviders, Bare(m))
            /\ Modules' = Modules
            /\ UNCHANGED <<httpProviders, grpcProviders, cronProviders,
                           runProviders, commandProviders>>
       /\ \A m \in ModuleValues : AddModuleStep(m) /\ MethodSet(m) = {"ProvideCloser"} =>
            /\ closerProviders' = Append(closerProviders, Bound(m, "ProvideCloser"))
            /\ Modules' = Append(Modules, m)
            /\ UNCHANGED <<httpProviders, grpcProviders, cronProviders,
                           runProviders, commandProviders>>
       /\ \A m \in ModuleValues : IsFunc(m) \/ MethodSet(m) = {"ProvideCloser"} =>
            /\ Reached(m)' = {}
            /\ ShutdownReturnStep => closerCalls'[CloserOf(m)] = Registrations(CloserOf(m))
       /\ registered' = <<"A", "B", "C">> =>
            /\ lastOp'.op = "ApplyRouter" =>
                 calls' = <<[p |-> Bound("A", "ProvideHttp"), host |-> lastOp'.host]>>
            /\ lastOp'.op = "ApplyCron" =>
                 calls' = <<[p |-> Bound("B", "ProvideCron"), host |-> lastOp'.host]>>
            /\ ShutdownReturnStep =>
                 /\ closerCalls' = [c \in AllClosers |->
                        IF c \in {Bound("A", "ProvideCloser"), Bare("C")}
                        THEN 1 ELSE 0]
                 /\ Len(tasks') = 2
                 /\ \A i \in 1..2 : tasks'[i].st \in {"returned", "done"}]_vars

C6_Witness ==
    /\ registered = <<"A", "B", "C">>
    /\ sdpc = "returned"
    /\ lastOp.op = "Shutdown"
    /\ closerCalls[Bare("C")] = 1
    /\ closerCalls[Bound("A", "ProvideCloser")] = 1
    /\ Modules = <<"A", "B">>

\* C7: registering a module without any of the six provider methods stores
\* it in the module collection and changes none of the six sequences, and
\* no Apply-X or Shutdown call ever invokes anything of it.
C7_NoCapabilityModule ==
    [][/\ \A m \in ModuleValues : AddModuleStep(m) /\ ~IsFunc(m) /\ MethodSet(m) = {} =>
            /\ Modules' = Append(Modules, m)
            /\ UNCHANGED <<httpProviders, grpcProviders, cronProviders,
                           runProviders, commandProviders, closerProviders>>
       /\ \A m \in ModuleValues : ~IsFunc(m) /\ MethodSet(m) = {} =>
            /\ Reached(m)' = {}
            /\ \A c \in AllClosers : c[1] = m => closerCalls'[c] = 0
            /\ \A i \in 1..Len(tasks') : tasks'[i].p[1] # m]_vars

C7_Witness ==
    /\ "D" \in Range(Modules)
    /\ "A" \in Range(Modules)
    /\ sdpc = "returned"
    /\ lastOp.op = "ApplyRouter"
    /\ Len(calls) >= 1
    /\ Len(tasks) >= 1

\* The sequence AddModule calls alone give for a capability.
Registered(meth) ==
    LET sel == SelectSeq(registered, LAMBDA m : meth \in MethodSet(m))
    IN [i \in 1..Len(sel) |-> Bound(sel[i], meth)]

\* C20: a step that registers nothing (Apply-X, Shutdown and its
\* goroutines) leaves the six sequences and the module collection as they
\* were, and what an Apply-X call invokes is given by the AddModule calls
\* before it, whatever was applied or shut down in between.
C20_OnlyRegistrationMutates ==
    [][/\ registered' = registered =>
            /\ UNCHANGED <<httpProviders, grpcProviders, cronProviders,
                           runProviders, commandProviders, closerProviders>>
            /\ Modules' = Modules
       /\ lastOp'.op = "ApplyRouter" =>
            httpProviders' = Registered("ProvideHttp")
       /\ lastOp'.op = "ApplyGRPCServer" =>
            grpcProviders' = Registered("ProvideGrpc")
       /\ lastOp'.op = "ApplyCron" =>
            cronProviders' = Registered("ProvideCron")
       /\ lastOp'.op = "ApplyRootCommand" =>
            commandProviders' = Registered("ProvideCommand")
       /\ lastOp'.op = "ApplyRunGroup" =>
            runProviders' = Registered("ProvideRunGroup")
       /\ sdpc' = "loop" =>
            Len(closerProviders') = Len(SelectSeq(registered, HasCloser))]_vars

C20_Witness ==
    /\ registered = <<"F", "A", "C">>
    /\ sdpc = "returned" /\ Len(tasks) = 3
    /\ lastOp = Called("ApplyRouter", "h1", 2)
    /\ httpProviders = <<Bound("F", "ProvideHttp"), Bound("A", "ProvideHttp")>>
    /\ closerProviders = <<Bound("F", "ProvideCloser"),
                           Bound("A", "ProvideCloser"), Bare("C")>>
    /\ Modules = <<"F", "A">>

\* The same Apply-X is called again with the same host, right after the
\* first call.
RepeatStep == ApplyStep /\ lastOp.n = 1 /\ lastOp'.n = 2

\* C21: a second call of the same Apply-X with the same host invokes what
\* the first call invoked, every callback of the capability in
\* registration order, so that the two calls together have invoked each
\* callback twice per registration.
C21_RepeatedDispatchRepeats ==
    [][RepeatStep =>
          /\ lastOp'.op = lastOp.op /\ lastOp'.host = lastOp.host
          /\ calls' = calls
          /\ calls' = Expected(MethodOf(lastOp'.op), lastOp'.host)
          /\ \A m \in Range(registered) :
                MethodOf(lastOp'.op) \in MethodSet(m) =>
                    LET e == [p |-> Bound(m, MethodOf(lastOp'.op)),
                              host |-> lastOp'.host]
                    IN Occurrences(calls, e) + Occurrences(calls', e)
                           = 2 * Occurrences(registered, m)]_vars

C21_Witness ==
    /\ registered = <<"A", "B", "F">>
    /\ lastOp = Called("ApplyRouter", "h2", 2)
    /\ calls = <<[p |-> Bound("A", "ProvideHttp"), host |-> "h2"],
                 [p |-> Bound("F", "ProvideHttp"), host |-> "h2"]>>
    /\ sdpc = "idle"

InShutdown == sdpc \in {"loop", "wait"}

\* Every closer that does not block has been started and has finished.
OthersDone ==
    /\ Len(tasks) = Len(closerProviders)
    /\ \A i \in 1..Len(tasks) :
          tasks[i].p \notin Blocking => tasks[i].st = "done"

\* C17: whichever closers block for ever, once Shutdown has begun every
\* other registered closer gets called, returns and finishes, in whatever
\* order the goroutines run; only the return of Shutdown waits for the
\* blocked closer.
C17_ClosersRunIndependently ==
    /\ InShutdown ~> OthersDone
    /\ [](sdpc = "returned" =>
            \A i \in 1..Len(tasks) : tasks[i].st \in {"returned", "done"})

C17_Witness ==
    /\ sdpc = "wait"
    /\ Len(tasks) = 3
    /\ tasks[1].p \in Blocking /\ tasks[1].st = "running"
    /\ tasks[2].p \notin Blocking /\ tasks[2].st = "done"
    /\ tasks[3].p \notin Blocking /\ tasks[3].st = "done"

\* C18: when every closer returns, a Shutdown that has begun returns; with
\* no closer registered it has nothing to wait for.
C18_ShutdownTerminates ==
    /\ InShutdown ~> sdpc = "returned"
    /\ [](sdpc = "wait" /\ Len(closerProviders) = 0 =>
            WaitDone /\ tasks = <<>>)

C18_Witness ==
    /\ sdpc = "returned"
    /\ Len(tasks) = 3
    /\ \E i \in 1..3 : tasks[i].p \in Blocking
    /\ \A i \in 1..3 : tasks[i].st = "done"

(***************************************************************************)
(* Properties of the resource factories                                    *)
(***************************************************************************)
ReturnStep(t) == pc[t] # "returned" /\ pc'[t] = "returned"

\* C8: while an instance is memoized for a name (no Close in between) it is
\* never replaced and the builder is not run for that name again; a Make
\* that finds an instance memoized returns that instance with no error, and
\* a Make that returns no error returns the memoized instance.
C8_OneInstancePerName ==
    [][/\ \A n \in Names : cache[n] # NoPair /\ closes' = closes =>
            cache'[n] = cache[n] /\ builds'[n] = builds[n]
       /\ \A t \in Threads : ReturnStep(t) /\ cache[arg[t]] # NoPair =>
            /\ ret'[t] = [conn |-> cache[arg[t]].Conn, err |-> NoErr,
                          panic |-> FALSE]
            /\ builds' = builds
       /\ \A t \in Threads : ReturnStep(t) /\ ret'[t].err = NoErr =>
            /\ cache'[arg[t]] # NoPair
            /\ ret'[t].conn = cache'[arg[t]].Conn]_vars

C8_Witness ==
    /\ closes = 0
    /\ \A t \in Threads :
          /\ pc[t] = "returned" /\ arg[t] = "a" /\ ~overlap[t]
          /\ ret[t].err = NoErr /\ ret[t].conn.id # 0
          /\ ret[t].conn = cache["a"].Conn
    /\ builds["a"] = 1 /\ makes = MaxMakes
    /\ nextConn = 2

\* C9: callers of Make for one name, concurrent or not, that have returned
\* without error all hold the one instance memoized for that name, and the
\* builder has produced a single instance for it.
C9_ConcurrentMakeOneInstance ==
    closes = 0 =>
        /\ \A n \in Names : cache[n] # NoPair => builds[n] = 1
        /\ \A t, u \in Threads :
              /\ pc[t] = "returned" /\ pc[u] = "returned"
              /\ arg[t] = arg[u]
              /\ ret[t].err = NoErr /\ ret[u].err = NoErr
              => /\ ret[t].conn = ret[u].conn
                 /\ ret[t].conn = cache[arg[t]].Conn

C9_Witness ==
    /\ closes = 0
    /\ \A t \in Threads :
          /\ pc[t] = "returned" /\ arg[t] = "a" /\ overlap[t]
          /\ ret[t].err = NoErr /\ ret[t].conn.id = 1
    /\ makes = NCallers
    /\ cache["a"].Conn.id = 1
    /\ builds["a"] = 1

\* C10: a failure to construct the client reaches the caller of Make as an
\* error and is not memoized: no Make returns a nil client with a nil
\* error, and no nil client is ever memoized.
C10_BuildFailurePropagated ==
    /\ \A t \in Threads :
          pc[t] = "returned" /\ ret[t].err = NoErr => ret[t].conn.id # 0
    /\ \A n \in Names : cache[n] # NoPair => cache[n].Conn.id # 0

\* C11: Make("default") returns no error when the configuration has no
\* "default" entry, with the redis builder as with the etcd builder.
C11_DefaultFallsBack ==
    \A t \in Threads :
        pc[t] = "returned" /\ arg[t] = "default" /\ "default" \notin dbConfs
            => ret[t].err = NoErr

\* Names without an entry in the configuration, "default" apart.
Missing == {n \in Names : n \notin dbConfs /\ n # "default"}

\* C12: a Make for a name that has no entry and is not "default" returns the
\* not-valid error carrying that name and no client, allocates no client,
\* leaves the memoization map as it was and holds no lock afterwards; a
\* Make for a configured name that returns after such a failure returns the
\* memoized instance with no error.
C12_MissingNameFails ==
    [][\A t \in Threads :
         /\ ReturnStep(t) /\ arg[t] \in Missing =>
              /\ ret'[t] = [conn |-> Nil, err |-> NotValid(kind, arg[t]),
                            panic |-> FALSE]
              /\ ret'[t].err.name = arg[t]
              /\ nextConn' = nextConn
              /\ cache' = cache /\ cache[arg[t]] = NoPair
              /\ lock'[arg[t]] = NoThread
         /\ /\ ReturnStep(t) /\ arg[t] \in dbConfs
            /\ \E n \in Missing : builds[n] > 0
            => /\ ret'[t].err = NoErr
               /\ cache'[arg[t]] # NoPair
               /\ ret'[t].conn = cache'[arg[t]].Conn]_vars

C12_Witness ==
    /\ kind = "etcd" /\ dbConfs = {"default"}
    /\ pc[1] = "returned" /\ arg[1] = "default"
    /\ ret[1].err = NoErr /\ ret[1].conn.id = 1
    /\ pc[2] = "idle" /\ makes = 2
    /\ builds["a"] = 1 /\ cache["a"] = NoPair

CloseStep == closes' = closes + 1

\* Clients the builders construct (0 stands for the nil client).
Conns == DOMAIN closedConns \ {0}

Memoized(i) == \E n \in Names : cache[n] # NoPair /\ cache[n].Conn.id = i

\* C13: a Close runs the teardown action of every memoized client, which
\* has then run exactly once, runs no other teardown action and leaves
\* nothing memoized; no teardown action ever runs twice; a Make that
\* returns after a Close finds either an instance built since that Close or
\* nothing, in which case it runs the builder, and the client it returns
\* has not been closed.
C13_CloseThenMakeRebuilds ==
    [][/\ CloseStep =>
            /\ \A i \in Conns :
                  closedConns'[i] = IF Memoized(i) THEN 1 ELSE closedConns[i]
            /\ \A n \in Names : cache'[n] = NoPair
       /\ \A i \in Conns : closedConns'[i] <= 1
       /\ \A t \in Threads :
            ReturnStep(t) /\ closes > 0 /\ ret'[t].err = NoErr
                /\ ret'[t].conn.id # 0 =>
                /\ closedConns'[ret'[t].conn.id] = 0
                /\ cache[arg[t]] = NoPair =>
                      /\ builds'[arg[t]] = builds[arg[t]] + 1
                      /\ ret'[t].conn.id = nextConn]_vars

C13_Witness ==
    /\ closes = 1
    /\ \E t \in Threads :
          /\ pc[t] = "returned" /\ arg[t] = "a"
          /\ ret[t].err = NoErr /\ ret[t].conn.id = 2
    /\ closedConns[1] = 1 /\ closedConns[2] = 0
    /\ builds["a"] = 2 /\ makes = 2
    /\ cache["a"].Conn.id = 2

\* C14: the typed Make never panics: whenever it hands back a client, that
\* client is of the wrapper's client type, and an instance of another type
\* coming from the generic factory is answered with an error value.
C14_MismatchIsAnError ==
    \A t \in Threads :
        pc[t] = "returned" =>
            /\ ~ret[t].panic
            /\ ret[t].conn # Nil => ret[t].conn.type = ClientType(kind)

BuildStep(t) == pc[t] = "build" /\ pc'[t] = "returned"

\* The builder finds a configuration for name.
Resolved(name) == name \in dbConfs \/ (kind = "etcd" /\ name = "default")

\* C19: the interceptor is called only by a build that has resolved a
\* configuration, once, with the configuration of the requested name as it
\* was resolved; the client that build constructs holds the configuration
\* as the interceptor left it, and without an interceptor the resolved
\* configuration itself.
C19_InterceptorBeforeClient ==
    [][/\ (\A t \in Threads : ~BuildStep(t)) => intercepted' = intercepted
       /\ \A t \in Threads : BuildStep(t) =>
            LET conn == ret'[t].conn
            IN IF hasInterceptor /\ Resolved(arg[t])
               THEN /\ Len(intercepted') = Len(intercepted) + 1
                    /\ SubSeq(intercepted', 1, Len(intercepted)) = intercepted
                    /\ LET conf == intercepted'[Len(intercepted')]
                       IN /\ conf.name = arg[t]
                          /\ ~conf.patched
                          /\ conf.source =
                                IF arg[t] \in dbConfs THEN "config"
                                ELSE IF env THEN "ETCD_ADDR"
                                ELSE "127.0.0.1:6379"
                          /\ conn.id # 0 =>
                                conn.conf = Interceptor(arg[t], conf)
               ELSE /\ intercepted' = intercepted
                    /\ conn.id # 0 =>
                          /\ conn.conf.name = arg[t]
                          /\ ~conn.conf.patched]_vars

C19_Witness ==
    /\ kind = "redis" /\ hasInterceptor /\ dbConfs = {"a"}
    /\ \A t \in Threads :
          /\ pc[t] = "returned" /\ arg[t] = "a"
          /\ ret[t].conn.id = 1 /\ ret[t].conn.conf.patched
    /\ builds["a"] = 1 /\ makes = 2
    /\ Len(intercepted) = 1
    /\ intercepted[1].name = "a" /\ ~intercepted[1].patched

(***************************************************************************)
(* Properties of package key                                               *)
(***************************************************************************)
\* C15: no call changes the labels read through a KeyManager that exists
\* already; in particular the result of an earlier With keeps the labels it
\* was returned with when With is called on the same receiver again.
C15_KeyManagerImmutable ==
    [][\A i \in 1..Len(managers) :
          SpreadInterface(heap', managers'[i])
              = SpreadInterface(heap, managers[i])]_vars

\* C16: a call of Key returns the labels its receiver held when it was
\* called, followed by its own parts, joined by the delimiter, whatever
\* other calls of Key and With ran meanwhile.
C16_KeyUnderConcurrency ==
    [][\A g \in Goroutines :
          kpc[g] = "appended" /\ kout'.g = g =>
              kout'.val = Join(kcall[g].labels \o kcall[g].parts, Delimiter)]_vars

====
